---- MODULE Spec2Model ----
(***************************************************************************)
(* A model of the MoNuSeg preprocessing scripts of Cell_Diffeomorphism:    *)
(*   - the grid tiler subset_patchify_MoNuSeg_data_by_cancer,              *)
(*   - the intra-image partitioner                                         *)
(*     subset_patchify_MoNuSeg_data_by_cancer_intraimage,                  *)
(*   - the annotation parser load_MoNuSeg_annotation and the rasterizer    *)
(*     annotation_to_label.                                                *)
(* Images are sequences of rows of pixels (1-indexed here, 0-indexed in    *)
(* the code: pixel (r, c) of the code is img[r + 1][c + 1]).  The colour   *)
(* channels of a pixel are folded into one number: no step of the scripts  *)
(* treats the channels of a pixel differently.                             *)
(***************************************************************************)
EXTENDS Integers, Sequences, FiniteSets, TLC

(***************************************************************************)
(* Bounds of the model.                                                    *)
(***************************************************************************)
MaxH == 3
MaxW == 4
MaxImsize == 2
PoolMaxH == 2
PoolMaxW == 2
MaxRegions == 3
MaxFiles == 2
MaxDetections == 2
EvalH == 2
EvalW == 2
CanvasH == 3
CanvasW == 3

(***************************************************************************)
(* The literal lists of the scripts.                                       *)
(***************************************************************************)
CancerTypes == <<"breast", "colon", "prostate">>

TrainList(cancer_type) ==
    CASE cancer_type = "breast" ->
            << "TCGA-A7-A13E-01Z-00-DX1", "TCGA-A7-A13F-01Z-00-DX1",
               "TCGA-AR-A1AK-01Z-00-DX1", "TCGA-AR-A1AS-01Z-00-DX1",
               "TCGA-E2-A1B5-01Z-00-DX1", "TCGA-E2-A14V-01Z-00-DX1" >>
      [] cancer_type = "colon" ->
            << "TCGA-AY-A8YK-01A-01-TS1", "TCGA-NH-A8F7-01A-01-TS1" >>
      [] cancer_type = "prostate" ->
            << "TCGA-G9-6336-01Z-00-DX1", "TCGA-G9-6348-01Z-00-DX1",
               "TCGA-G9-6356-01Z-00-DX1", "TCGA-G9-6363-01Z-00-DX1",
               "TCGA-CH-5767-01Z-00-DX1", "TCGA-G9-6362-01Z-00-DX1" >>

TestList(cancer_type) ==
    CASE cancer_type = "breast" ->
            << "TCGA-AC-A2FO-01A-01-TS1", "TCGA-AO-A0J2-01A-01-BSA" >>
      [] cancer_type = "colon" ->
            << "TCGA-A6-6782-01A-01-BS1" >>
      [] cancer_type = "prostate" ->
            << "TCGA-EJ-A46H-01A-03-TSC", "TCGA-HC-7209-01A-01-TS1" >>

Percentages == <<5, 20, 50>>

(***************************************************************************)
(* Sequence helpers.                                                       *)
(***************************************************************************)
RECURSIVE Flatten(_)
Flatten(ss) == IF ss = <<>> THEN <<>> ELSE Head(ss) \o Flatten(Tail(ss))

(***************************************************************************)
(* The iterations of the nested for loops, in the order the code runs      *)
(* them.  A job of the tiler is one (cancer type, split, item); a job of   *)
(* the partitioner is one (cancer type, percentage, item) with the item's  *)
(* position in test_list (enumerate).                                      *)
(***************************************************************************)
PatchifyJobs ==
    Flatten([ ci \in DOMAIN CancerTypes |->
        [ i \in DOMAIN TrainList(CancerTypes[ci]) |->
            [ cancer_type |-> CancerTypes[ci], split |-> "train",
              item |-> TrainList(CancerTypes[ci])[i] ] ]
        \o
        [ i \in DOMAIN TestList(CancerTypes[ci]) |->
            [ cancer_type |-> CancerTypes[ci], split |-> "test",
              item |-> TestList(CancerTypes[ci])[i] ] ] ])

IntraJobs ==
    Flatten([ ci \in DOMAIN CancerTypes |->
        Flatten([ pi \in DOMAIN Percentages |->
            [ i \in DOMAIN TestList(CancerTypes[ci]) |->
                [ cancer_type |-> CancerTypes[ci],
                  percentage |-> Percentages[pi],
                  test_item_count |-> i - 1,
                  test_item |-> TestList(CancerTypes[ci])[i] ] ] ]) ])

(***************************************************************************)
(* The source images on disk.  cv2.imread of an item's image or mask file  *)
(* returns an array of srcH rows and srcW columns.  srcKind picks what the *)
(* files hold: "ramp" gives every pixel of an image its own non-zero value *)
(* (so that a tile's content tells where it was cut) and a checkered 0/255 *)
(* mask, "dark" blanks the first row of that image and the first column of *)
(* that mask, "blank" is an all-zero image with an all-zero mask.          *)
(***************************************************************************)
VARIABLES imsize, srcH, srcW, srcKind

inputVars == <<imsize, srcH, srcW, srcKind>>

SrcKinds == {"ramp", "dark", "blank"}

ItemNo(item) == CHOOSE i \in DOMAIN PatchifyJobs : PatchifyJobs[i].item = item

RampPixel(item, r, c) == ((ItemNo(item) * 5 + (r - 1) * srcW + (c - 1)) % 255) + 1

CheckerPixel(item, r, c) == IF (ItemNo(item) + r + c) % 2 = 0 THEN 255 ELSE 0

imread_image(item) ==
    [ r \in 1..srcH |-> [ c \in 1..srcW |->
        CASE srcKind = "ramp"  -> RampPixel(item, r, c)
          [] srcKind = "dark"  -> IF r = 1 THEN 0 ELSE RampPixel(item, r, c)
          [] srcKind = "blank" -> 0 ] ]

imread_mask(item) ==
    [ r \in 1..srcH |-> [ c \in 1..srcW |->
        CASE srcKind = "ramp"  -> CheckerPixel(item, r, c)
          [] srcKind = "dark"  -> IF c = 1 THEN 0 ELSE CheckerPixel(item, r, c)
          [] srcKind = "blank" -> 0 ] ]

(***************************************************************************)
(* Arrays.                                                                 *)
(***************************************************************************)
Min(a, b) == IF a < b THEN a ELSE b
Max(a, b) == IF a > b THEN a ELSE b

Height(img) == Len(img)
Width(img) == IF Len(img) = 0 THEN 0 ELSE Len(img[1])

\* img[h_begin:h_end, w_begin:w_end] for 0 <= h_begin, 0 <= w_begin: a slice
\* stops at the array's edge.
Slice(img, h_begin, h_end, w_begin, w_end) ==
    [ r \in 1..(Min(h_end, Height(img)) - h_begin) |->
        [ c \in 1..(Min(w_end, Width(img)) - w_begin) |->
            img[h_begin + r][w_begin + c] ] ]

\* An empty patch that was not multiplied by 0, and a canvas that starts as
\* a copy of the image.
TimesZeroForgotten(arr) == arr
zeros_like_copy(arr) == arr

\* arr * 0 and np.zeros_like(arr)
TimesZero(arr) == [ r \in DOMAIN arr |-> [ c \in DOMAIN arr[r] |-> arr[r][c] * 0 ] ]
zeros_like(arr) == [ r \in DOMAIN arr |-> [ c \in DOMAIN arr[r] |-> 0 ] ]

\* dst[h_begin:h_end, w_begin:w_end] = src[h_begin:h_end, w_begin:w_end]
AssignSlice(dst, src, h_begin, h_end, w_begin, w_end) ==
    [ r \in DOMAIN dst |-> [ c \in DOMAIN dst[r] |->
        IF /\ h_begin < r /\ r <= Min(h_end, Height(dst))
           /\ w_begin < c /\ c <= Min(w_end, Width(dst))
        THEN src[r][c] ELSE dst[r][c] ] ]

(***************************************************************************)
(* Output paths.  A path is the record of the parts its string is          *)
(* formatted from; a part a path does not have is -1 or "".                *)
(***************************************************************************)
PatchifyTilePath(size, cancer_type, split, kind, item, h, w) ==
    [ root |-> "MoNuSegByCancer", pct |-> -1, size |-> size,
      cancer |-> cancer_type, dir |-> split, count |-> -1,
      sub |-> kind, item |-> item, suffix |-> "HW", h |-> h, w |-> w ]

\* A target folder that leaves the percentage out of its name.
IntraTilePathNoPct(percentage, size, cancer_type, test_item_count, split, kind, test_item, h, w) ==
    [ root |-> "MoNuSegByCancer_intraimage", pct |-> -1, size |-> size,
      cancer |-> cancer_type, dir |-> split, count |-> test_item_count,
      sub |-> kind, item |-> test_item, suffix |-> "HW", h |-> h, w |-> w ]

\* A tile file name that leaves the column offset out.
IntraTilePathNoW(percentage, size, cancer_type, test_item_count, split, kind, test_item, h, w) ==
    [ root |-> "MoNuSegByCancer_intraimage", pct |-> percentage, size |-> size,
      cancer |-> cancer_type, dir |-> split, count |-> test_item_count,
      sub |-> kind, item |-> test_item, suffix |-> "HW", h |-> h, w |-> -1 ]

IntraTilePath(percentage, size, cancer_type, test_item_count, split, kind, test_item, h, w) ==
    [ root |-> "MoNuSegByCancer_intraimage", pct |-> percentage, size |-> size,
      cancer |-> cancer_type, dir |-> split, count |-> test_item_count,
      sub |-> kind, item |-> test_item, suffix |-> "HW", h |-> h, w |-> w ]

IntraEffectivePath(percentage, size, cancer_type, test_item_count, kind, test_item) ==
    [ root |-> "MoNuSegByCancer_intraimage", pct |-> percentage, size |-> size,
      cancer |-> cancer_type, dir |-> "test", count |-> test_item_count,
      sub |-> "", item |-> test_item, suffix |-> kind, h |-> -1, w |-> -1 ]

(***************************************************************************)
(* The output file system: fs maps each written path to the array last     *)
(* written there (data) and to the number of writes the path has had       *)
(* (writes).  cv2.imwrite creates the file or replaces its content.        *)
(***************************************************************************)
VARIABLES fs

imwrite(files, path, content) ==
    (path :> [ data |-> content,
               writes |-> IF path \in DOMAIN files THEN files[path].writes + 1 ELSE 1 ])
    @@ files

(***************************************************************************)
(* The state of the running script: fn is the function of __main__ that is *)
(* running, job the iteration of its item loop, pc the place in that       *)
(* iteration ("read": about to read the item's files, "tile": in the       *)
(* h_chunk/w_chunk loops).  The other variables are the locals of the      *)
(* code, under their names.                                                *)
(***************************************************************************)
VARIABLES fn, job, pc, image, mask, image_h, image_w, h_chunk, w_chunk,
          total_count, target_count, curr_count, image_effective, mask_effective

ctlVars == <<fn, job, pc>>
imgVars == <<image, mask, image_h, image_w>>
chunkVars == <<h_chunk, w_chunk>>
countVars == <<total_count, target_count, curr_count>>
effVars == <<image_effective, mask_effective>>

tilerVars == <<inputVars, fs, ctlVars, imgVars, chunkVars, countVars, effVars>>

(***************************************************************************)
(* A second run of the script over the files the first run left: run       *)
(* counts the runs, prev_fs holds the output of the run before.            *)
(***************************************************************************)
VARIABLES run, prev_fs

runVars == <<run, prev_fs>>

(***************************************************************************)
(* A pool of workers, each running the per-image body of the partitioner   *)
(* on an image of its own: workers maps a worker to the job it is given    *)
(* and to its locals while it is not running, cur is the worker that runs  *)
(* (its locals are the variables of the script above), phase tells the     *)
(* sequential pass over the same images from the pool's pass.              *)
(***************************************************************************)
VARIABLES workers, cur, phase

poolVars == <<workers, cur, phase>>

(***************************************************************************)
(* The annotation parser and the rasterizer: doc is the annotation         *)
(* document, apc the place in load_MoNuSeg_annotation and then in          *)
(* annotation_to_label, region_idx the position of the region loop, idx    *)
(* that of the cell loop; the rest are the locals of the code.             *)
(***************************************************************************)
VARIABLES doc, apc, region_idx, verts_list, region_id_list, cnt_invalid,
          idx, label, centroids

annotVars == <<doc, apc, region_idx, verts_list, region_id_list, cnt_invalid,
               idx, label, centroids>>

(***************************************************************************)
(* process_MoNuSeg_data.  subset is the position of the subset loop,       *)
(* annotation_files and image_files the two sorted listings of the         *)
(* subset, file_idx the position of the loop over annotation_files, ppc    *)
(* the place in the loop body, image_rgb the image after the conversion to *)
(* RGB, and outputs the files cv2.imwrite has written, as in fs.           *)
(***************************************************************************)
VARIABLES xmls, tifs, subset, annotation_files, image_files, file_idx, ppc, image_rgb, outputs

procVars == <<xmls, tifs, subset, annotation_files, image_files, file_idx, ppc, image_rgb, outputs>>

(***************************************************************************)
(* detection_eval.  nuclei_list, gt_mask and total_pos are the arguments   *)
(* (gt_mask the mask as passed in), n_idx the position of the loop over    *)
(* nuclei_list, epc the place in the function; TP, FN and recall are its   *)
(* results.                                                                *)
(***************************************************************************)
VARIABLES nuclei_list, gt_mask, total_pos, n_idx, nuclei_mask, epc, TP, FN, recall

evalVars == <<nuclei_list, gt_mask, total_pos, n_idx, nuclei_mask, epc, TP, FN, recall>>

nonTilerVars == <<runVars, poolVars, annotVars, procVars, evalVars>>

\* The first and the next values of (h_chunk, w_chunk) in
\*   for h_chunk in range(nh): for w_chunk in range(nw)
\* h_chunk = nh says that the loops are over.
FirstChunk(nh, nw) == IF nw = 0 THEN <<nh, 0>> ELSE <<0, 0>>
NextChunk(h, w, nh, nw) == IF w + 1 < nw THEN <<h, w + 1>> ELSE <<h + 1, 0>>

\* A tiler that rounds the number of rows up, and so cuts a tile from a
\* trailing partial row.
ChunkRowsCeil(height, size) == (height + size - 1) \div size

\* range(image_h // imsize), range(image_w // imsize)
ChunkRows(height, size) == height \div size
ChunkCols(width, size) == width \div size

\* h_begin = max(h, 0); h_end = min(h + imsize, image_h), and so for w
Begin(offset) == Max(offset, 0)
End(offset, size, limit) == Min(offset + size, limit)

(***************************************************************************)
(* subset_patchify_MoNuSeg_data_by_cancer                                  *)
(***************************************************************************)
PatchifyRead ==
    /\ fn = "patchify" /\ pc = "read"
    /\ LET item == PatchifyJobs[job].item
           img == imread_image(item)
           first == FirstChunk(ChunkRows(Height(img), imsize), ChunkCols(Width(img), imsize))
       IN /\ image' = img
          /\ mask' = imread_mask(item)
          /\ image_h' = Height(img)
          /\ image_w' = Width(img)
          /\ h_chunk' = first[1]
          /\ w_chunk' = first[2]
    /\ pc' = "tile"
    /\ UNCHANGED <<nonTilerVars, inputVars, fs, fn, job, countVars, effVars>>

PatchifyTile ==
    /\ fn = "patchify" /\ pc = "tile"
    /\ h_chunk < ChunkRows(image_h, imsize)
    /\ LET j == PatchifyJobs[job]
           h == h_chunk * imsize
           w == w_chunk * imsize
           image_path_to == PatchifyTilePath(imsize, j.cancer_type, j.split, "images", j.item, h, w)
           mask_path_to == PatchifyTilePath(imsize, j.cancer_type, j.split, "masks", j.item, h, w)
           h_begin == Begin(h)
           w_begin == Begin(w)
           h_end == End(h, imsize, image_h)
           w_end == End(w, imsize, image_w)
           image_patch == Slice(image, h_begin, h_end, w_begin, w_end)
           mask_patch == Slice(mask, h_begin, h_end, w_begin, w_end)
           next == NextChunk(h_chunk, w_chunk, ChunkRows(image_h, imsize), ChunkCols(image_w, imsize))
       IN /\ fs' = imwrite(imwrite(fs, image_path_to, image_patch), mask_path_to, mask_patch)
          /\ h_chunk' = next[1]
          /\ w_chunk' = next[2]
    /\ UNCHANGED <<nonTilerVars, inputVars, ctlVars, imgVars, countVars, effVars>>

\* The tile loops of one item are over: the next item, or the function returns.
PatchifyNextItem ==
    /\ fn = "patchify" /\ pc = "tile"
    /\ h_chunk >= ChunkRows(image_h, imsize)
    /\ pc' = "read"
    /\ IF job < Len(PatchifyJobs)
       THEN /\ job' = job + 1
            /\ fn' = fn
       ELSE /\ job' = job
            /\ fn' = "patchify_done"
    /\ UNCHANGED <<nonTilerVars, inputVars, fs, imgVars, chunkVars, countVars, effVars>>

(***************************************************************************)
(* subset_patchify_MoNuSeg_data_by_cancer_intraimage                       *)
(***************************************************************************)
\* A target that truncates the quotient instead of rounding it up.
TargetCountFloor(percentage, total) == (percentage * total) \div 100

\* int(np.ceil(percentage * total_count / 100)): the quotient is a float, an
\* integer exactly when 100 divides the product, and ceil rounds it up.
TargetCount(percentage, total) ==
    IF (percentage * total) % 100 = 0
    THEN (percentage * total) \div 100
    ELSE (percentage * total) \div 100 + 1

IntraReadWith(first_count) ==
    /\ fn = "intraimage" /\ pc = "read"
    /\ LET test_item == IntraJobs[job].test_item
           img == imread_image(test_item)
           msk == imread_mask(test_item)
           total == ChunkRows(Height(img), imsize) * ChunkCols(Width(img), imsize)
           first == FirstChunk(ChunkRows(Height(img), imsize), ChunkCols(Width(img), imsize))
       IN /\ image' = img
          /\ mask' = msk
          /\ image_h' = Height(img)
          /\ image_w' = Width(img)
          /\ total_count' = total
          /\ target_count' = TargetCount(IntraJobs[job].percentage, total)
          /\ curr_count' = first_count
          /\ image_effective' = zeros_like(img)
          /\ mask_effective' = zeros_like(msk)
          /\ h_chunk' = first[1]
          /\ w_chunk' = first[2]
    /\ pc' = "tile"
    /\ UNCHANGED <<nonTilerVars, inputVars, fs, fn, job>>

\* A partitioner that does not reset curr_count for the next image.
IntraReadKeepsCount == IntraReadWith(curr_count)

\* curr_count = 0
IntraRead == IntraReadWith(0)

\* if curr_count < target_count: the tile goes to the train folder, and an
\* empty pair to the test folder.
IntraEvidenceTile ==
    /\ fn = "intraimage" /\ pc = "tile"
    /\ h_chunk < ChunkRows(image_h, imsize)
    /\ curr_count < target_count
    /\ LET j == IntraJobs[job]
           h == h_chunk * imsize
           w == w_chunk * imsize
           h_begin == Begin(h)
           w_begin == Begin(w)
           h_end == End(h, imsize, image_h)
           w_end == End(w, imsize, image_w)
           image_patch == Slice(image, h_begin, h_end, w_begin, w_end)
           mask_patch == Slice(mask, h_begin, h_end, w_begin, w_end)
           image_path_to == IntraTilePath(j.percentage, imsize, j.cancer_type, j.test_item_count, "train", "images", j.test_item, h, w)
           mask_path_to == IntraTilePath(j.percentage, imsize, j.cancer_type, j.test_item_count, "train", "masks", j.test_item, h, w)
           empty_image_patch == TimesZero(image_patch)
           empty_mask_patch == TimesZero(mask_patch)
           empty_image_path_to == IntraTilePath(j.percentage, imsize, j.cancer_type, j.test_item_count, "test", "images", j.test_item, h, w)
           empty_mask_path_to == IntraTilePath(j.percentage, imsize, j.cancer_type, j.test_item_count, "test", "masks", j.test_item, h, w)
           next == NextChunk(h_chunk, w_chunk, ChunkRows(image_h, imsize), ChunkCols(image_w, imsize))
       IN /\ fs' = imwrite(imwrite(imwrite(imwrite(fs,
                        image_path_to, image_patch),
                        mask_path_to, mask_patch),
                        empty_image_path_to, empty_image_patch),
                        empty_mask_path_to, empty_mask_patch)
          /\ h_chunk' = next[1]
          /\ w_chunk' = next[2]
    /\ curr_count' = curr_count + 1
    /\ UNCHANGED <<nonTilerVars, inputVars, ctlVars, imgVars, total_count, target_count, effVars>>

\* else: the tile goes to the test folder and into the effective pair.
IntraHeldOutTile ==
    /\ fn = "intraimage" /\ pc = "tile"
    /\ h_chunk < ChunkRows(image_h, imsize)
    /\ ~(curr_count < target_count)
    /\ LET j == IntraJobs[job]
           h == h_chunk * imsize
           w == w_chunk * imsize
           h_begin == Begin(h)
           w_begin == Begin(w)
           h_end == End(h, imsize, image_h)
           w_end == End(w, imsize, image_w)
           image_patch == Slice(image, h_begin, h_end, w_begin, w_end)
           mask_patch == Slice(mask, h_begin, h_end, w_begin, w_end)
           image_path_to == IntraTilePath(j.percentage, imsize, j.cancer_type, j.test_item_count, "test", "images", j.test_item, h, w)
           mask_path_to == IntraTilePath(j.percentage, imsize, j.cancer_type, j.test_item_count, "test", "masks", j.test_item, h, w)
           next == NextChunk(h_chunk, w_chunk, ChunkRows(image_h, imsize), ChunkCols(image_w, imsize))
       IN /\ fs' = imwrite(imwrite(fs, image_path_to, image_patch), mask_path_to, mask_patch)
          /\ image_effective' = AssignSlice(image_effective, image, h_begin, h_end, w_begin, w_end)
          /\ mask_effective' = AssignSlice(mask_effective, mask, h_begin, h_end, w_begin, w_end)
          /\ h_chunk' = next[1]
          /\ w_chunk' = next[2]
    /\ curr_count' = curr_count + 1
    /\ UNCHANGED <<nonTilerVars, inputVars, ctlVars, imgVars, total_count, target_count>>

\* After the tile loops: save the effective pair; then the next item, or the
\* function returns.
IntraWriteEffective ==
    /\ fn = "intraimage" /\ pc = "tile"
    /\ h_chunk >= ChunkRows(image_h, imsize)
    /\ LET j == IntraJobs[job]
           image_effective_path_to == IntraEffectivePath(j.percentage, imsize, j.cancer_type, j.test_item_count, "effective_image", j.test_item)
           mask_effective_path_to == IntraEffectivePath(j.percentage, imsize, j.cancer_type, j.test_item_count, "effective_mask", j.test_item)
       IN /\ fs' = imwrite(imwrite(fs, image_effective_path_to, image_effective),
                           mask_effective_path_to, mask_effective)
    /\ pc' = "read"
    /\ IF job < Len(IntraJobs)
       THEN /\ job' = job + 1
            /\ fn' = fn
       ELSE /\ job' = job
            /\ fn' = "intraimage_done"
    /\ UNCHANGED <<nonTilerVars, inputVars, imgVars, chunkVars, countVars, effVars>>

(***************************************************************************)
(* A call of subset_patchify_MoNuSeg_data_by_cancer(imsize) or of          *)
(* subset_patchify_MoNuSeg_data_by_cancer_intraimage(imsize), over source  *)
(* images of any size up to MaxH x MaxW and any tile size up to MaxImsize, *)
(* into an empty output tree.                                              *)
(***************************************************************************)
vars == <<tilerVars, runVars, poolVars, annotVars, procVars, evalVars>>

TilerInit ==
    /\ imsize \in 1..MaxImsize
    /\ srcH \in 1..MaxH
    /\ srcW \in 1..MaxW
    /\ srcKind \in SrcKinds
    /\ fs = <<>>
    /\ fn \in {"patchify", "intraimage"} /\ job = 1 /\ pc = "read"
    /\ image = <<>> /\ mask = <<>> /\ image_h = 0 /\ image_w = 0
    /\ h_chunk = 0 /\ w_chunk = 0
    /\ total_count = 0 /\ target_count = 0 /\ curr_count = 0
    /\ image_effective = <<>> /\ mask_effective = <<>>

TilerIdle ==
    /\ imsize = 1 /\ srcH = 1 /\ srcW = 1 /\ srcKind = "blank"
    /\ fs = <<>>
    /\ fn = "idle" /\ job = 1 /\ pc = "read"
    /\ image = <<>> /\ mask = <<>> /\ image_h = 0 /\ image_w = 0
    /\ h_chunk = 0 /\ w_chunk = 0
    /\ total_count = 0 /\ target_count = 0 /\ curr_count = 0
    /\ image_effective = <<>> /\ mask_effective = <<>>

RunIdle == run = "first" /\ prev_fs = <<>>

PoolIdle == workers = <<>> /\ cur = 0 /\ phase = "idle"

AnnotIdle ==
    /\ doc = <<>> /\ apc = "idle" /\ region_idx = 0
    /\ verts_list = <<>> /\ region_id_list = <<>> /\ cnt_invalid = 0
    /\ idx = 0 /\ label = <<>> /\ centroids = <<>>

ProcIdle ==
    /\ xmls = <<>> /\ tifs = <<>> /\ subset = 0
    /\ annotation_files = <<>> /\ image_files = <<>> /\ file_idx = 0
    /\ ppc = "idle" /\ image_rgb = <<>> /\ outputs = <<>>

EvalIdle ==
    /\ nuclei_list = <<>> /\ gt_mask = <<>> /\ total_pos = 0 /\ n_idx = 0
    /\ nuclei_mask = <<>> /\ epc = "idle" /\ TP = 0 /\ FN = 0 /\ recall = <<>>

Init == TilerInit /\ RunIdle /\ PoolIdle /\ AnnotIdle /\ ProcIdle /\ EvalIdle

Next ==
    \/ PatchifyRead
    \/ PatchifyTile
    \/ PatchifyNextItem
    \/ IntraRead
    \/ IntraEvidenceTile
    \/ IntraHeldOutTile
    \/ IntraWriteEffective

Spec == Init /\ [][Next]_vars

(***************************************************************************)
(* What the properties below read off a state.                             *)
(***************************************************************************)
\* The grid the claims speak of: floor(H/s) rows of floor(W/s) tiles.
GridRows == srcH \div imsize
GridCols == srcW \div imsize
GridTotal == GridRows * GridCols

\* The pixels of the source file of `kind` ("images" or "masks") of an item,
\* s rows by s columns from offset (h, w).
SourceOf(kind, item) == IF kind = "images" THEN imread_image(item) ELSE imread_mask(item)
SourceTile(kind, item, h, w) ==
    [ r \in 1..imsize |-> [ c \in 1..imsize |-> SourceOf(kind, item)[h + r][w + c] ] ]

IsShape(arr, rows, cols) == Len(arr) = rows /\ \A r \in 1..rows : Len(arr[r]) = cols
AllZero(arr) == \A r \in DOMAIN arr : \A c \in DOMAIN arr[r] : arr[r][c] = 0

\* Tile t of the grid in row-major order, and its offset in pixels.
TileRow(t) == t \div GridCols
TileCol(t) == t % GridCols
TileH(t) == TileRow(t) * imsize
TileW(t) == TileCol(t) * imsize
OnGrid(h, w) ==
    \E i \in 0..(GridRows - 1) : \E j \in 0..(GridCols - 1) : h = i * imsize /\ w = j * imsize
GridIndex(h, w) == (h \div imsize) * GridCols + (w \div imsize)

\* Every offset a tile of the source image could be cut at.
Offsets == (0..(srcH - 1)) \X (0..(srcW - 1))

\* How many tiles of job k each function has emitted so far.
PatchifyEmitted(k) ==
    IF fn = "patchify" /\ job = k /\ pc = "tile" THEN h_chunk * GridCols + w_chunk
    ELSE IF fn = "patchify" /\ job > k THEN GridTotal
    ELSE IF fn = "patchify_done" THEN GridTotal
    ELSE 0
IntraEmitted(k) ==
    IF fn = "intraimage" /\ job = k /\ pc = "tile" THEN h_chunk * GridCols + w_chunk
    ELSE IF fn = "intraimage" /\ job > k THEN GridTotal
    ELSE IF fn = "intraimage_done" THEN GridTotal
    ELSE 0
IntraFinished(k) == fn = "intraimage_done" \/ (fn = "intraimage" /\ job > k)

PatchifyPathOf(k, kind, h, w) ==
    [ root |-> "MoNuSegByCancer", pct |-> -1, size |-> imsize,
      cancer |-> PatchifyJobs[k].cancer_type, dir |-> PatchifyJobs[k].split,
      count |-> -1, sub |-> kind, item |-> PatchifyJobs[k].item,
      suffix |-> "HW", h |-> h, w |-> w ]
IntraPathOf(k, split, kind, h, w) ==
    [ root |-> "MoNuSegByCancer_intraimage", pct |-> IntraJobs[k].percentage,
      size |-> imsize, cancer |-> IntraJobs[k].cancer_type, dir |-> split,
      count |-> IntraJobs[k].test_item_count, sub |-> kind,
      item |-> IntraJobs[k].test_item, suffix |-> "HW", h |-> h, w |-> w ]
IntraEffectiveOf(k, kind) ==
    [ root |-> "MoNuSegByCancer_intraimage", pct |-> IntraJobs[k].percentage,
      size |-> imsize, cancer |-> IntraJobs[k].cancer_type, dir |-> "test",
      count |-> IntraJobs[k].test_item_count, sub |-> "",
      item |-> IntraJobs[k].test_item, suffix |-> kind, h |-> -1, w |-> -1 ]

\* The jobs a state has to be read for: the one in progress and the one before
\* it, and all of them once the function has returned.
PatchifyJobsToRead ==
    IF fn = "patchify" THEN {job, job - 1} \cap DOMAIN PatchifyJobs
    ELSE IF fn = "patchify_done" THEN DOMAIN PatchifyJobs ELSE {}
IntraJobsToRead ==
    IF fn = "intraimage" THEN {job, job - 1} \cap DOMAIN IntraJobs
    ELSE IF fn = "intraimage_done" THEN DOMAIN IntraJobs ELSE {}

(***************************************************************************)
(* C1.  The grid tiler of both functions emits floor(H/s) * floor(W/s)     *)
(* tiles per image; every tile is s rows by s columns, at an offset        *)
(* (i*s, j*s) with i < floor(H/s) and j < floor(W/s); no two tiles of an   *)
(* image overlap, and no tile reaches into a trailing partial row or       *)
(* column.  Stated of the files written, for the image in progress (and    *)
(* the one just done) at every step and for every image once the function *)
(* returns: a tile file                                                    *)
(* exists at an offset exactly when the offset is on the grid and the      *)
(* loops have emitted that tile, so that the tiles are floor(H/s) *        *)
(* floor(W/s) when the image is done.                                      *)
(***************************************************************************)
C1_TileOnGrid(content, h, w) ==
    /\ IsShape(content, imsize, imsize)
    /\ OnGrid(h, w)
    /\ h + Len(content) <= GridRows * imsize
    /\ \A r \in DOMAIN content : w + Len(content[r]) <= GridCols * imsize

C1_Disjoint(a, ha, wa, b, hb, wb) ==
    \/ ha + Len(a) <= hb
    \/ hb + Len(b) <= ha
    \/ \A r \in DOMAIN a : wa + Len(a[r]) <= wb
    \/ \A r \in DOMAIN b : wb + Len(b[r]) <= wa

C1_PatchifyJob(k, kind) ==
    LET present == { o \in Offsets : PatchifyPathOf(k, kind, o[1], o[2]) \in DOMAIN fs }
        tile(o) == fs[PatchifyPathOf(k, kind, o[1], o[2])].data
    IN /\ \A o \in Offsets :
             o \in present <=> (OnGrid(o[1], o[2]) /\ GridIndex(o[1], o[2]) < PatchifyEmitted(k))
       /\ Cardinality(present) = PatchifyEmitted(k)
       /\ \A o \in present :
             /\ C1_TileOnGrid(tile(o), o[1], o[2])
             /\ tile(o) = SourceTile(kind, PatchifyJobs[k].item, o[1], o[2])
       /\ \A o, q \in present :
             o # q => C1_Disjoint(tile(o), o[1], o[2], tile(q), q[1], q[2])

C1_IntraJob(k, split, kind) ==
    LET present == { o \in Offsets : IntraPathOf(k, split, kind, o[1], o[2]) \in DOMAIN fs }
        tile(o) == fs[IntraPathOf(k, split, kind, o[1], o[2])].data
    IN /\ split = "test" =>
             /\ \A o \in Offsets :
                   o \in present <=> (OnGrid(o[1], o[2]) /\ GridIndex(o[1], o[2]) < IntraEmitted(k))
             /\ Cardinality(present) = IntraEmitted(k)
       /\ \A o \in present : C1_TileOnGrid(tile(o), o[1], o[2])
       /\ \A o, q \in present :
             o # q => C1_Disjoint(tile(o), o[1], o[2], tile(q), q[1], q[2])

C1_TilerGrid ==
    /\ \A k \in PatchifyJobsToRead : \A kind \in {"images", "masks"} : C1_PatchifyJob(k, kind)
    /\ \A k \in IntraJobsToRead : \A split \in {"train", "test"} :
          \A kind \in {"images", "masks"} : C1_IntraJob(k, split, kind)

\* A function has tiled an image that has a trailing partial row and a
\* trailing partial column, and emitted the tiles of it.
C1_Witness ==
    /\ fn \in {"patchify_done", "intraimage_done"}
    /\ srcH % imsize # 0 /\ srcW % imsize # 0
    /\ GridTotal >= 1
    /\ \A t \in 0..(GridTotal - 1) :
          \/ PatchifyPathOf(1, "images", TileH(t), TileW(t)) \in DOMAIN fs
          \/ IntraPathOf(1, "test", "images", TileH(t), TileW(t)) \in DOMAIN fs

(***************************************************************************)
(* C2.  In the partitioner, with T = floor(H/s) * floor(W/s), the tile of  *)
(* row-major index t is assigned to the evidence partition (written into   *)
(* the img<N>_train tree) if and only if t < ceil(p*T/100); so an image    *)
(* that is done has ceil(p*T/100) evidence tiles and T - ceil(p*T/100)     *)
(* held-out tiles.                                                         *)
(***************************************************************************)
\* ceil(p*T/100): the least m with 100*m >= p*T
CeilPct(p, T) == CHOOSE m \in 0..(p * T) : 100 * m >= p * T /\ 100 * (m - 1) < p * T

C2_EvidenceOffsets(k, kind) ==
    { o \in Offsets : IntraPathOf(k, "train", kind, o[1], o[2]) \in DOMAIN fs }
C2_HeldOutOffsets(k, kind) ==
    { o \in Offsets : /\ IntraPathOf(k, "test", kind, o[1], o[2]) \in DOMAIN fs
                      /\ IntraPathOf(k, "train", kind, o[1], o[2]) \notin DOMAIN fs }

C2_Job(k, kind) ==
    LET target == CeilPct(IntraJobs[k].percentage, GridTotal)
    IN /\ \A t \in 0..(GridTotal - 1) :
             /\ IntraPathOf(k, "train", kind, TileH(t), TileW(t)) \in DOMAIN fs
                   <=> (t < IntraEmitted(k) /\ t < target)
             /\ IntraPathOf(k, "test", kind, TileH(t), TileW(t)) \in DOMAIN fs
                   <=> t < IntraEmitted(k)
       /\ C2_EvidenceOffsets(k, kind) \subseteq { <<TileH(t), TileW(t)>> : t \in 0..(GridTotal - 1) }
       /\ IntraFinished(k) =>
             /\ Cardinality(C2_EvidenceOffsets(k, kind)) = target
             /\ Cardinality(C2_HeldOutOffsets(k, kind)) = GridTotal - target

C2_EvidenceFirst ==
    \A k \in IntraJobsToRead : \A kind \in {"images", "masks"} : C2_Job(k, kind)

\* An image is done at 20 percent, where ceil rounds up: 2 evidence tiles, and
\* held-out tiles after them.
C2_Witness ==
    /\ fn = "intraimage_done"
    /\ \E k \in DOMAIN IntraJobs :
          /\ IntraJobs[k].percentage = 20
          /\ (20 * GridTotal) % 100 # 0
          /\ Cardinality(C2_EvidenceOffsets(k, "images")) = 2
          /\ Cardinality(C2_HeldOutOffsets(k, "images")) >= 4

(***************************************************************************)
(* C3.  Every evidence tile (row-major index below ceil(p*T/100)) is       *)
(* written twice: its real image and mask content to img<N>_train/images   *)
(* and img<N>_train/masks, and an all-zero image and mask of the same      *)
(* shape to img<N>_test/images and img<N>_test/masks under the same file   *)
(* name; the held-out tree never holds the real content of an evidence     *)
(* tile.                                                                   *)
(***************************************************************************)
C3_Tile(k, kind, h, w) ==
    LET real == IntraPathOf(k, "train", kind, h, w)
        empty == IntraPathOf(k, "test", kind, h, w)
    IN /\ real \in DOMAIN fs
       /\ empty \in DOMAIN fs
       /\ fs[real].data = SourceTile(kind, IntraJobs[k].test_item, h, w)
       /\ AllZero(fs[empty].data)
       /\ IsShape(fs[empty].data, Len(fs[real].data), Len(fs[real].data[1]))
       /\ fs[real].writes = 1
       /\ fs[empty].writes = 1
       /\ empty = [real EXCEPT !.dir = "test"]

C3_EvidenceWrittenTwice ==
    \A k \in IntraJobsToRead : \A kind \in {"images", "masks"} :
       \A t \in 0..(GridTotal - 1) :
          (t < IntraEmitted(k) /\ t < CeilPct(IntraJobs[k].percentage, GridTotal))
             => C3_Tile(k, kind, TileH(t), TileW(t))

\* An evidence tile with real content that is not zero has been written.
C3_Witness ==
    /\ fn = "intraimage"
    /\ IntraEmitted(job) >= 1
    /\ ~AllZero(fs[IntraPathOf(job, "train", "images", 0, 0)].data)
    /\ ~AllZero(fs[IntraPathOf(job, "train", "masks", 0, 0)].data)
    /\ AllZero(fs[IntraPathOf(job, "test", "images", 0, 0)].data)
    /\ AllZero(fs[IntraPathOf(job, "test", "masks", 0, 0)].data)

(***************************************************************************)
(* C4.  The effective image and mask start all-zero for each (image,       *)
(* percentage); after any number of tiles a pixel of a canvas is the       *)
(* source pixel if it lies in a held-out tile already processed and 0      *)
(* otherwise; the canvases written equal the source on the pixels of the   *)
(* held-out tiles and are 0 on every pixel of an evidence tile and of a    *)
(* trailing partial row or column.                                         *)
(***************************************************************************)
\* Pixel (r, c) lies in a tile of index from..(to - 1).
C4_InTiles(r, c, from, to) ==
    \E t \in from..(to - 1) :
       /\ TileH(t) < r /\ r <= TileH(t) + imsize
       /\ TileW(t) < c /\ c <= TileW(t) + imsize

C4_Canvas(canvas, kind, k, emitted) ==
    /\ IsShape(canvas, srcH, srcW)
    /\ \A r \in 1..srcH : \A c \in 1..srcW :
          canvas[r][c] =
             IF C4_InTiles(r, c, CeilPct(IntraJobs[k].percentage, GridTotal), emitted)
             THEN SourceOf(kind, IntraJobs[k].test_item)[r][c]
             ELSE 0

C4_EffectiveCanvas ==
    /\ (fn = "intraimage" /\ pc = "tile") =>
          /\ C4_Canvas(image_effective, "images", job, IntraEmitted(job))
          /\ C4_Canvas(mask_effective, "masks", job, IntraEmitted(job))
    /\ \A k \in IntraJobsToRead :
          IntraFinished(k) =>
             /\ IntraEffectiveOf(k, "effective_image") \in DOMAIN fs
             /\ IntraEffectiveOf(k, "effective_mask") \in DOMAIN fs
             /\ C4_Canvas(fs[IntraEffectiveOf(k, "effective_image")].data, "images", k, GridTotal)
             /\ C4_Canvas(fs[IntraEffectiveOf(k, "effective_mask")].data, "masks", k, GridTotal)

\* A written effective image that shows a held-out tile and hides an evidence
\* tile and a trailing row whose source pixels are not zero.
C4_Witness ==
    /\ fn = "intraimage"
    /\ job > 1
    /\ srcH % imsize # 0
    /\ IntraEffectiveOf(job - 1, "effective_image") \in DOMAIN fs
    /\ LET eff == fs[IntraEffectiveOf(job - 1, "effective_image")].data
           src == imread_image(IntraJobs[job - 1].test_item)
       IN /\ eff[1][1] = 0 /\ src[1][1] # 0
          /\ eff[srcH][1] = 0 /\ src[srcH][1] # 0
          /\ \E r \in 1..srcH : \E c \in 1..srcW : eff[r][c] # 0

(***************************************************************************)
(* The script run a second time on the same inputs: the output tree of the *)
(* first run is still on disk (os.makedirs(..., exist_ok=True) accepts the *)
(* folders, cv2.imwrite replaces the files), and the variables hold what   *)
(* the first run left in them.                                             *)
(***************************************************************************)
Rerun ==
    /\ run = "first"
    /\ fn \in {"patchify_done", "intraimage_done"}
    /\ run' = "second"
    /\ prev_fs' = fs
    /\ fn' = IF fn = "patchify_done" THEN "patchify" ELSE "intraimage"
    /\ job' = 1
    /\ pc' = "read"
    /\ UNCHANGED <<poolVars, annotVars, procVars, evalVars, inputVars, fs, imgVars, chunkVars, countVars, effVars>>

NextRerun == Next \/ Rerun

SpecRerun == Init /\ [][NextRerun]_vars

(***************************************************************************)
(* C5.  The tiler and the partitioner are deterministic: a second run on   *)
(* the same source image, mask, imsize and percentage writes the same      *)
(* paths with the same content, and assigns every tile as the first run    *)
(* did; nothing depends on what the first run left behind.  Stated of the  *)
(* second run: every write it makes puts back the content the first run    *)
(* wrote at that path, it creates no path the first run did not, and when  *)
(* it is through it has written every path as often as the first run did.  *)
(***************************************************************************)
C5_Deterministic ==
    run = "second" =>
       /\ DOMAIN fs = DOMAIN prev_fs
       /\ \A p \in DOMAIN fs : fs[p].data = prev_fs[p].data
       /\ fn \in {"patchify_done", "intraimage_done"} =>
             \A p \in DOMAIN fs : fs[p].writes = 2 * prev_fs[p].writes

\* The second run of the partitioner is through, over an image with evidence
\* tiles and held-out tiles that are not blank.
C5_Witness ==
    /\ run = "second"
    /\ fn = "intraimage_done"
    /\ GridTotal >= 2
    /\ srcKind = "ramp"
    /\ \E p \in DOMAIN fs : p.dir = "train" /\ fs[p].writes = 2 /\ ~AllZero(fs[p].data)
    /\ \E p \in DOMAIN fs : p.dir = "test" /\ p.suffix = "HW" /\ ~AllZero(fs[p].data)

(***************************************************************************)
(* A pool of two workers over two images of the partitioner.  First the    *)
(* two images are processed one after the other, as the script does, with  *)
(* the locals of the first image still in the variables when the second    *)
(* starts; that output is kept in prev_fs.  Then the same two images are   *)
(* processed into an empty tree by two workers with locals of their own,   *)
(* in any order and interleaved at any tile: Switch suspends the running   *)
(* worker and resumes the other.  The source files are "ramp" files, whose *)
(* pixels differ from item to item and from place to place: no step of the *)
(* partitioner branches on a pixel.                                        *)
(***************************************************************************)
Workers == {1, 2}

CurrentCtx ==
    [ fn |-> fn, job |-> job, pc |-> pc, image |-> image, mask |-> mask,
      image_h |-> image_h, image_w |-> image_w, h_chunk |-> h_chunk, w_chunk |-> w_chunk,
      total_count |-> total_count, target_count |-> target_count, curr_count |-> curr_count,
      image_effective |-> image_effective, mask_effective |-> mask_effective ]

FreshCtx(j) ==
    [ fn |-> "intraimage", job |-> j, pc |-> "read", image |-> <<>>, mask |-> <<>>,
      image_h |-> 0, image_w |-> 0, h_chunk |-> 0, w_chunk |-> 0,
      total_count |-> 0, target_count |-> 0, curr_count |-> 0,
      image_effective |-> <<>>, mask_effective |-> <<>> ]

Resume(ctx) ==
    /\ fn' = ctx.fn /\ job' = ctx.job /\ pc' = ctx.pc
    /\ image' = ctx.image /\ mask' = ctx.mask
    /\ image_h' = ctx.image_h /\ image_w' = ctx.image_w
    /\ h_chunk' = ctx.h_chunk /\ w_chunk' = ctx.w_chunk
    /\ total_count' = ctx.total_count /\ target_count' = ctx.target_count
    /\ curr_count' = ctx.curr_count
    /\ image_effective' = ctx.image_effective /\ mask_effective' = ctx.mask_effective

CtxFinished(w, ctx) == ctx.fn # "intraimage" \/ ctx.job # workers[w].assigned
Finished == CtxFinished(cur, CurrentCtx)

InitPool ==
    /\ imsize \in 1..MaxImsize
    /\ srcH \in 1..PoolMaxH
    /\ srcW \in 1..PoolMaxW
    /\ srcKind = "ramp"
    /\ fs = <<>>
    /\ \E j1, j2 \in DOMAIN IntraJobs :
          /\ j1 < j2
          /\ workers = [ w \in Workers |->
                           [ assigned |-> IF w = 1 THEN j1 ELSE j2,
                             ctx |-> FreshCtx(IF w = 1 THEN j1 ELSE j2) ] ]
          /\ job = j1
    /\ cur = 1 /\ phase = "sequential"
    /\ fn = "intraimage" /\ pc = "read"
    /\ image = <<>> /\ mask = <<>> /\ image_h = 0 /\ image_w = 0
    /\ h_chunk = 0 /\ w_chunk = 0
    /\ total_count = 0 /\ target_count = 0 /\ curr_count = 0
    /\ image_effective = <<>> /\ mask_effective = <<>>
    /\ RunIdle /\ AnnotIdle /\ ProcIdle /\ EvalIdle

PoolRead == phase # "idle" /\ ~Finished /\ IntraRead
PoolEvidenceTile == phase # "idle" /\ ~Finished /\ IntraEvidenceTile
PoolHeldOutTile == phase # "idle" /\ ~Finished /\ IntraHeldOutTile
PoolWriteEffective == phase # "idle" /\ ~Finished /\ IntraWriteEffective

\* The script's loop goes on to the second image.
SequentialNextImage ==
    /\ phase = "sequential" /\ Finished /\ cur = 1
    /\ cur' = 2
    /\ fn' = "intraimage" /\ job' = workers[2].assigned /\ pc' = "read"
    /\ UNCHANGED <<runVars, annotVars, procVars, evalVars, workers, phase, inputVars, fs,
                   imgVars, chunkVars, countVars, effVars>>

\* The sequential pass is over: keep its output and start the pool on an
\* empty tree, with either worker first.
StartPool ==
    /\ phase = "sequential" /\ Finished /\ cur = 2
    /\ prev_fs' = fs
    /\ fs' = <<>>
    /\ phase' = "pool"
    /\ \E w \in Workers : cur' = w /\ Resume(workers[w].ctx)
    /\ UNCHANGED <<run, annotVars, procVars, evalVars, workers, inputVars>>

Switch ==
    /\ phase = "pool"
    /\ \E w \in Workers :
          /\ w # cur
          /\ ~CtxFinished(w, workers[w].ctx)
          /\ workers' = [workers EXCEPT ![cur].ctx = CurrentCtx]
          /\ cur' = w
          /\ Resume(workers[w].ctx)
    /\ UNCHANGED <<runVars, annotVars, procVars, evalVars, phase, inputVars, fs>>

NextPool ==
    \/ PoolRead
    \/ PoolEvidenceTile
    \/ PoolHeldOutTile
    \/ PoolWriteEffective
    \/ SequentialNextImage
    \/ StartPool
    \/ Switch

SpecPool == InitPool /\ [][NextPool]_vars

PoolDone ==
    /\ phase = "pool"
    /\ Finished
    /\ \A w \in Workers \ {cur} : CtxFinished(w, workers[w].ctx)

(***************************************************************************)
(* C6.  The output for one image does not depend on the order in which     *)
(* images are processed nor on interleaving with other images: curr_count  *)
(* and the effective canvases are initialised anew per (image,             *)
(* percentage), two different (cancer type, image, percentage) write       *)
(* disjoint paths, and any order or interleaving leaves the same files     *)
(* with the same contents as the sequential order.                         *)
(***************************************************************************)
C6_OrderIndependent ==
    /\ (phase # "idle" /\ fn = "intraimage" /\ pc = "tile" /\ h_chunk = 0 /\ w_chunk = 0) =>
          /\ curr_count = 0
          /\ IsShape(image_effective, srcH, srcW) /\ AllZero(image_effective)
          /\ IsShape(mask_effective, srcH, srcW) /\ AllZero(mask_effective)
    /\ (phase = "sequential" /\ Finished /\ cur = 2) =>
          \A p \in DOMAIN fs : fs[p].writes = 1
    /\ PoolDone =>
          /\ fs = prev_fs
          /\ \A p \in DOMAIN fs : fs[p].writes = 1

\* The pool is through with two percentages of one image, the worker of the
\* image that comes second in the script having finished first, and the
\* output holds evidence tiles that are not blank.
C6_Witness ==
    /\ PoolDone
    /\ cur = 1
    /\ IntraJobs[workers[1].assigned].test_item = IntraJobs[workers[2].assigned].test_item
    /\ IntraJobs[workers[1].assigned].percentage # IntraJobs[workers[2].assigned].percentage
    /\ GridTotal >= 4
    /\ \E p \in DOMAIN fs : p.dir = "train" /\ ~AllZero(fs[p].data)
    /\ \E p \in DOMAIN fs : p.dir = "test" /\ p.suffix = "HW" /\ ~AllZero(fs[p].data)

(***************************************************************************)
(* Annotation documents.  A region has its declared Area attribute, its Id *)
(* attribute and its Vertex elements, each with X and Y.  Numbers with a   *)
(* fraction are kept as integers: an Area in tenths (9 is "0.9", 10 is     *)
(* "1.0"), a coordinate in halves of a pixel (3 is "1.5"), so that the     *)
(* centre of pixel (r, c) is the point (2r, 2c).                           *)
(***************************************************************************)
V(x, y) == [X |-> x, Y |-> y]

Shapes ==
    [ triangle   |-> << V(0, 0), V(4, 0), V(0, 2) >>,
      square     |-> << V(2, 2), V(4, 2), V(4, 4), V(2, 4) >>,
      diagonal   |-> << V(0, 0), V(2, 2), V(4, 4) >>,
      offgrid    |-> << V(1, 1), V(3, 1), V(5, 1) >>,
      sliver     |-> << V(1, 1), V(3, 1), V(1, 2) >>,
      outside    |-> << V(20, 20), V(24, 20), V(20, 24) >>,
      segment    |-> << V(0, 0), V(2, 2) >> ]

AreaChoices == {9, 10}

RegionOf(choice, i) == [ Area |-> choice[1], Id |-> 10 * i, Vertices |-> Shapes[choice[2]] ]

(***************************************************************************)
(* load_MoNuSeg_annotation                                                 *)
(***************************************************************************)
\* An area check that also rejects an Area of exactly 1.0.
RejectedByAreaInclusive(region) == region.Area <= 10

\* region_area = float(region.attrib['Area']); if region_area < 1.0
RejectedByArea(region) == region.Area < 10

\* len(vertices) < 3
RejectedByVertices(region) == Len(region.Vertices) < 3

\* verts.append([y, x]) for each vertex
VertsOf(region) == [ i \in DOMAIN region.Vertices |-> << region.Vertices[i].Y, region.Vertices[i].X >> ]

ParseRejectArea ==
    /\ apc = "parse" /\ region_idx <= Len(doc)
    /\ RejectedByArea(doc[region_idx])
    /\ cnt_invalid' = cnt_invalid + 1
    /\ region_idx' = region_idx + 1
    /\ UNCHANGED <<tilerVars, runVars, poolVars, procVars, evalVars, doc, apc, verts_list, region_id_list,
                   idx, label, centroids>>

ParseRejectVertices ==
    /\ apc = "parse" /\ region_idx <= Len(doc)
    /\ ~RejectedByArea(doc[region_idx])
    /\ RejectedByVertices(doc[region_idx])
    /\ cnt_invalid' = cnt_invalid + 1
    /\ region_idx' = region_idx + 1
    /\ UNCHANGED <<tilerVars, runVars, poolVars, procVars, evalVars, doc, apc, verts_list, region_id_list,
                   idx, label, centroids>>

ParseKeep ==
    /\ apc = "parse" /\ region_idx <= Len(doc)
    /\ ~RejectedByArea(doc[region_idx])
    /\ ~RejectedByVertices(doc[region_idx])
    /\ region_id_list' = Append(region_id_list, doc[region_idx].Id)
    /\ verts_list' = Append(verts_list, VertsOf(doc[region_idx]))
    /\ region_idx' = region_idx + 1
    /\ UNCHANGED <<tilerVars, runVars, poolVars, procVars, evalVars, doc, apc, cnt_invalid, idx, label, centroids>>

\* return (verts_list, region_id_list)
ParseReturn ==
    /\ apc = "parse" /\ region_idx > Len(doc)
    /\ apc' = "parsed"
    /\ UNCHANGED <<tilerVars, runVars, poolVars, procVars, evalVars, doc, region_idx, verts_list, region_id_list,
                   cnt_invalid, idx, label, centroids>>

(***************************************************************************)
(* annotation_to_label.  polygon2mask marks the pixels whose centre the    *)
(* point-in-polygon test does not report as outside: a centre on a vertex  *)
(* or on an edge counts.  The test counts the edges crossing the ray to    *)
(* the right and the ray to the left of the point.                         *)
(***************************************************************************)
\* The sign of (x0 * y1 - x1 * y0) / (y1 - y0), for y1 # y0.
CrossSign(x0, y0, x1, y1) ==
    LET num == x0 * y1 - x1 * y0
        den == y1 - y0
    IN IF num = 0 THEN 0 ELSE IF (num > 0) = (den > 0) THEN 1 ELSE -1

RECURSIVE Crossings(_, _, _, _, _)
Crossings(cell, py, px, i, right) ==
    IF i > Len(cell) THEN 0
    ELSE LET prev == IF i = 1 THEN Len(cell) ELSE i - 1
             y0 == cell[i][1] - py
             x0 == cell[i][2] - px
             y1 == cell[prev][1] - py
             x1 == cell[prev][2] - px
             straddle == IF right THEN (y0 > 0) # (y1 > 0) ELSE (y0 < 0) # (y1 < 0)
             hit == straddle /\ CrossSign(x0, y0, x1, y1) = (IF right THEN 1 ELSE -1)
         IN (IF hit THEN 1 ELSE 0) + Crossings(cell, py, px, i + 1, right)

point_in_polygon(cell, py, px) ==
    LET r_cross == Crossings(cell, py, px, 1, TRUE)
        l_cross == Crossings(cell, py, px, 1, FALSE)
    IN IF \E i \in DOMAIN cell : cell[i] = << py, px >> THEN "vertex"
       ELSE IF r_cross % 2 # l_cross % 2 THEN "edge"
       ELSE IF r_cross % 2 = 1 THEN "inside"
       ELSE "outside"

\* Rows and columns are numbered from 1 here; pixel (r, c) of the array is
\* row r + 1, column c + 1, and its centre is (2r, 2c) in half pixels.
polygon2mask(height, width, cell) ==
    [ r \in 1..height |-> [ c \in 1..width |->
        IF point_in_polygon(cell, 2 * (r - 1), 2 * (c - 1)) # "outside" THEN 1 ELSE 0 ] ]

\* An accumulation that adds the masks.
AccumulateAdd(lab, cell_mask) ==
    [ r \in DOMAIN lab |-> [ c \in DOMAIN lab[r] |-> (lab[r][c] + cell_mask[r][c]) % 256 ] ]

\* np.maximum(label, cell_mask).astype(np.uint8)
Accumulate(lab, cell_mask) ==
    [ r \in DOMAIN lab |-> [ c \in DOMAIN lab[r] |-> Max(lab[r][c], cell_mask[r][c]) % 256 ] ]

MaskPixels(cell_mask) ==
    { rc \in (1..Height(cell_mask)) \X (1..Width(cell_mask)) : cell_mask[rc[1]][rc[2]] # 0 }

RECURSIVE SumOf(_, _)
SumOf(S, k) ==
    IF S = {} THEN 0
    ELSE LET rc == CHOOSE e \in S : TRUE
         IN (rc[k] - 1) + SumOf(S \ {rc}, k)

\* skimage.measure.centroid followed by int(): the mean row and the mean
\* column of the mask, truncated.  The mean over an empty mask is nan.
centroid(cell_mask) ==
    LET on == MaskPixels(cell_mask)
    IN IF on = {} THEN "nan"
       ELSE << SumOf(on, 1) \div Cardinality(on), SumOf(on, 2) \div Cardinality(on) >>

\* label = np.zeros((image.shape[0], image.shape[1])); centroids = []
LabelStart ==
    /\ apc = "parsed"
    /\ apc' = "label"
    /\ label' = [ r \in 1..CanvasH |-> [ c \in 1..CanvasW |-> 0 ] ]
    /\ centroids' = <<>>
    /\ idx' = 0
    /\ UNCHANGED <<tilerVars, runVars, poolVars, procVars, evalVars, doc, region_idx, verts_list, region_id_list,
                   cnt_invalid>>

\* One iteration of the loop over the cells whose mask has a centroid.
LabelCell ==
    /\ apc = "label" /\ idx < Len(verts_list)
    /\ LET cell_mask == polygon2mask(Height(label), Width(label), verts_list[idx + 1])
       IN /\ centroid(cell_mask) # "nan"
          /\ label' = Accumulate(label, cell_mask)
          /\ centroids' = Append(centroids, centroid(cell_mask))
    /\ idx' = idx + 1
    /\ UNCHANGED <<tilerVars, runVars, poolVars, procVars, evalVars, doc, apc, region_idx, verts_list,
                   region_id_list, cnt_invalid>>

\* One iteration over a cell with an empty mask: label is updated, then
\* int(centroid[0]) raises ValueError on nan and the function is left.
LabelCellRaises ==
    /\ apc = "label" /\ idx < Len(verts_list)
    /\ LET cell_mask == polygon2mask(Height(label), Width(label), verts_list[idx + 1])
       IN /\ centroid(cell_mask) = "nan"
          /\ label' = Accumulate(label, cell_mask)
    /\ apc' = "raised"
    /\ UNCHANGED <<tilerVars, runVars, poolVars, procVars, evalVars, doc, region_idx, verts_list, region_id_list,
                   cnt_invalid, idx, centroids>>

\* return label, centroids
LabelReturn ==
    /\ apc = "label" /\ idx = Len(verts_list)
    /\ apc' = "returned"
    /\ UNCHANGED <<tilerVars, runVars, poolVars, procVars, evalVars, doc, region_idx, verts_list, region_id_list,
                   cnt_invalid, idx, label, centroids>>

InitAnnot ==
    /\ TilerIdle /\ RunIdle /\ PoolIdle /\ ProcIdle /\ EvalIdle
    /\ \E n \in 0..MaxRegions : \E f \in [ 1..n -> AreaChoices \X DOMAIN Shapes ] :
         doc = [ i \in 1..n |-> RegionOf(f[i], i) ]
    /\ apc = "parse"
    /\ region_idx = 1
    /\ verts_list = <<>>
    /\ region_id_list = <<>>
    /\ cnt_invalid = 0
    /\ idx = 0
    /\ label = <<>>
    /\ centroids = <<>>

NextAnnot ==
    \/ ParseRejectArea
    \/ ParseRejectVertices
    \/ ParseKeep
    \/ ParseReturn
    \/ LabelStart
    \/ LabelCell
    \/ LabelCellRaises
    \/ LabelReturn

SpecAnnot == InitAnnot /\ [][NextAnnot]_vars

(***************************************************************************)
(* Claims about the annotation parser and the rasterizer.                  *)
(***************************************************************************)
Processed == region_idx - 1

NumRasterized == IF apc = "raised" THEN idx + 1 ELSE idx

HasArea1AndThreeVertices(region) == region.Area >= 10 /\ Len(region.Vertices) >= 3

RECURSIVE KeptUpTo(_)
KeptUpTo(n) ==
    IF n = 0 THEN <<>>
    ELSE IF HasArea1AndThreeVertices(doc[n]) THEN Append(KeptUpTo(n - 1), n)
    ELSE KeptUpTo(n - 1)

\* C7: at every point of load_MoNuSeg_annotation and after it, the kept
\* regions are exactly the regions read so far whose declared Area is at
\* least 1.0 and that have at least 3 vertices, in document order; entry m of
\* the vertex lists and entry m of the ids come from the same region; kept
\* plus rejected is the number of regions read; and the function returns only
\* after it has read every region, those after a rejected one included.
C7_ParserFilter ==
    apc # "idle" =>
        LET kept == KeptUpTo(Processed)
        IN /\ Len(verts_list) = Len(kept)
           /\ Len(region_id_list) = Len(kept)
           /\ \A m \in DOMAIN kept :
                /\ region_id_list[m] = doc[kept[m]].Id
                /\ Len(verts_list[m]) = Len(doc[kept[m]].Vertices)
                /\ \A j \in DOMAIN verts_list[m] :
                     /\ verts_list[m][j][1] = doc[kept[m]].Vertices[j].Y
                     /\ verts_list[m][j][2] = doc[kept[m]].Vertices[j].X
           /\ Len(kept) + cnt_invalid = Processed
           /\ (apc # "parse" => Processed = Len(doc))

C7_Witness ==
    /\ apc = "parsed"
    /\ Len(doc) = 3
    /\ doc[1].Area = 10 /\ Len(doc[1].Vertices) = 3
    /\ doc[2].Area = 9 /\ Len(doc[2].Vertices) = 4
    /\ doc[3].Area = 10 /\ Len(doc[3].Vertices) = 4
    /\ region_id_list = << 10, 30 >>
    /\ cnt_invalid = 1

Collinear3(cell) ==
    /\ Len(cell) = 3
    /\ (cell[2][1] - cell[1][1]) * (cell[3][2] - cell[1][2])
         = (cell[3][1] - cell[1][1]) * (cell[2][2] - cell[1][2])

\* C8: a region with exactly 3 collinear vertices is rejected by the parser
\* and is never rasterized, whatever its declared Area.
C8_CollinearNeverRasterized ==
    apc # "idle" =>
        /\ \A m \in DOMAIN verts_list : ~Collinear3(verts_list[m])
        /\ \A m \in 1..NumRasterized : ~Collinear3(verts_list[m])

UnionOfRasters(n) ==
    LET rasters == [ m \in 1..n |-> polygon2mask(CanvasH, CanvasW, verts_list[m]) ]
    IN [ r \in 1..CanvasH |-> [ c \in 1..CanvasW |->
           IF \E m \in 1..n : rasters[m][r][c] = 1 THEN 1 ELSE 0 ] ]

\* C9: after every iteration of annotation_to_label the running mask has the
\* shape of the image, holds only 0 and 1, and is the pixel-wise union of the
\* rasterizations of the regions processed so far; the returned mask is the
\* union over all the regions.
C9_MaskIsUnion ==
    apc \in {"label", "raised", "returned"} =>
        /\ IsShape(label, CanvasH, CanvasW)
        /\ \A r \in 1..CanvasH : \A c \in 1..CanvasW : label[r][c] \in {0, 1}
        /\ label = UnionOfRasters(NumRasterized)
        /\ (apc = "returned" => NumRasterized = Len(verts_list))

C9_Witness ==
    /\ apc = "returned"
    /\ Len(verts_list) = 2
    /\ LET first == polygon2mask(CanvasH, CanvasW, verts_list[1])
           second == polygon2mask(CanvasH, CanvasW, verts_list[2])
       IN /\ \E r \in 1..CanvasH : \E c \in 1..CanvasW : first[r][c] = 1 /\ second[r][c] = 1
          /\ \E r \in 1..CanvasH : \E c \in 1..CanvasW : first[r][c] = 1 /\ second[r][c] = 0
          /\ \E r \in 1..CanvasH : \E c \in 1..CanvasW : first[r][c] = 0 /\ second[r][c] = 1
          /\ \E r \in 1..CanvasH : \E c \in 1..CanvasW : label[r][c] = 0

\* C10: annotation_to_label, once left, has returned one integer (row,
\* column) centroid per region, in the order of the vertex lists, also for a
\* region whose rasterization covers no pixel.
C10_OneCentroidPerRegion ==
    apc \in {"raised", "returned"} =>
        /\ apc = "returned"
        /\ Len(centroids) = Len(verts_list)
        /\ \A m \in DOMAIN centroids :
             LET on == MaskPixels(polygon2mask(CanvasH, CanvasW, verts_list[m]))
                 n == Cardinality(on)
             IN /\ centroids[m] \in (0..(CanvasH - 1)) \X (0..(CanvasW - 1))
                /\ centroids[m][1] * n <= SumOf(on, 1) /\ SumOf(on, 1) < (centroids[m][1] + 1) * n
                /\ centroids[m][2] * n <= SumOf(on, 2) /\ SumOf(on, 2) < (centroids[m][2] + 1) * n

(***************************************************************************)
(* process_MoNuSeg_data.  A file is the record of its folder, the part of  *)
(* its name before the first dot, and its extension; the files of a        *)
(* folder are named 1, 2, ...  xmls[s] and tifs[s] are the names of the    *)
(* annotation files and of the image files that subset s has on disk.      *)
(***************************************************************************)
Subsets == << "test", "train" >>

ImageFolder(s) ==
    IF Subsets[s] = "train" THEN "MoNuSegTrainData/Tissue Images" ELSE "MoNuSegTestData"

AnnotationFolder(s) ==
    IF Subsets[s] = "train" THEN "MoNuSegTrainData/Annotations" ELSE "MoNuSegTestData"

OutImageFolder(s) ==
    IF Subsets[s] = "train" THEN "MoNuSegTrainData/images/" ELSE "MoNuSegTestData/images/"

OutMaskFolder(s) ==
    IF Subsets[s] = "train" THEN "MoNuSegTrainData/masks/" ELSE "MoNuSegTestData/masks/"

File(folder, stem, ext) == [ folder |-> folder, stem |-> stem, ext |-> ext ]

\* sorted(glob(f'{folder}/*.{ext}'))
RECURSIVE SortedGlob(_, _, _)
SortedGlob(folder, names, ext) ==
    IF names = {} THEN <<>>
    ELSE LET least == CHOOSE n \in names : \A m \in names : n <= m
         IN << File(folder, least, ext) >> \o SortedGlob(folder, names \ {least}, ext)

\* os.path.basename(annotation_file).split('.')[0]
ImageIdOf(annotation_file) == annotation_file.stem

\* A membership test that finds every image.
ImageFoundAlways(image_file, files) == TRUE

\* image_file in image_files
ImageFound(image_file, files) == \E k \in DOMAIN files : files[k] = image_file

\* The pixels of an image file, in the order (B, G, R) cv2.imread gives.
imread_tif(image_file) ==
    [ r \in 1..CanvasH |-> [ c \in 1..CanvasW |-> << image_file.stem, r, c >> ] ]

\* cv2.cvtColor with COLOR_BGR2RGB or COLOR_RGB2BGR
SwapChannels(img) ==
    [ r \in DOMAIN img |-> [ c \in DOMAIN img[r] |-> << img[r][c][3], img[r][c][2], img[r][c][1] >> ] ]

\* The regions of the annotation file of an image.
DocOf(s, stem) ==
    LET variant == (stem + s - 1) % 3
        choices == IF variant = 1 THEN << <<10, "triangle">>, <<10, "diagonal">> >>
                   ELSE IF variant = 2 THEN << <<9, "square">>, <<10, "segment">>, <<10, "square">> >>
                   ELSE << <<10, "triangle">>, <<10, "outside">> >>
    IN [ i \in DOMAIN choices |-> RegionOf(choices[i], i) ]

\* np.max(mask)
RECURSIVE MaxOfSeq(_)
MaxOfSeq(row) == IF Len(row) = 1 THEN row[1] ELSE Max(row[1], MaxOfSeq(Tail(row)))
MaxOf(arr) == MaxOfSeq([ r \in DOMAIN arr |-> MaxOfSeq(arr[r]) ])

\* A mask written as it is.
Unscaled(arr) == arr

\* np.uint8(mask * 255)
Times255(arr) == [ r \in DOMAIN arr |-> [ c \in DOMAIN arr[r] |-> (arr[r][c] * 255) % 256 ] ]

CurrentAnnotation == annotation_files[file_idx]

CurrentImageFile == File(ImageFolder(subset), ImageIdOf(CurrentAnnotation), "tif")

InitProcess ==
    /\ TilerIdle /\ RunIdle /\ PoolIdle /\ AnnotIdle /\ EvalIdle
    /\ xmls \in [ DOMAIN Subsets -> SUBSET (1..MaxFiles) ]
    /\ tifs \in [ DOMAIN Subsets -> SUBSET (1..MaxFiles) ]
    /\ subset = 1
    /\ annotation_files = SortedGlob(AnnotationFolder(1), xmls[1], "xml")
    /\ image_files = SortedGlob(ImageFolder(1), tifs[1], "tif")
    /\ file_idx = 1
    /\ ppc = "loop"
    /\ image_rgb = <<>>
    /\ outputs = <<>>

\* if image_file not in image_files: print(...); continue
ProcSkip ==
    /\ ppc = "loop" /\ file_idx <= Len(annotation_files)
    /\ ~ImageFound(CurrentImageFile, image_files)
    /\ file_idx' = file_idx + 1
    /\ UNCHANGED <<tilerVars, runVars, poolVars, annotVars, evalVars, xmls, tifs, subset,
                   annotation_files, image_files, ppc, image_rgb, outputs>>

\* The image is read and converted; load_MoNuSeg_annotation is entered.
ProcRead ==
    /\ ppc = "loop" /\ file_idx <= Len(annotation_files)
    /\ ImageFound(CurrentImageFile, image_files)
    /\ image_rgb' = SwapChannels(imread_tif(CurrentImageFile))
    /\ doc' = DocOf(subset, CurrentAnnotation.stem)
    /\ apc' = "parse"
    /\ region_idx' = 1
    /\ verts_list' = <<>>
    /\ region_id_list' = <<>>
    /\ cnt_invalid' = 0
    /\ ppc' = "annot"
    /\ UNCHANGED <<tilerVars, runVars, poolVars, evalVars, xmls, tifs, subset, annotation_files,
                   image_files, file_idx, outputs, idx, label, centroids>>

\* assert np.max(mask) in [0, 1], then the two cv2.imwrite
ProcCheckAndWrite ==
    /\ ppc = "annot" /\ apc = "returned"
    /\ LET image_id == ImageIdOf(CurrentAnnotation)
           out_image_path == File(OutImageFolder(subset), image_id, "png")
           out_mask_path == File(OutMaskFolder(subset), image_id, "png")
       IN IF MaxOf(label) \in {0, 1}
          THEN /\ outputs' = imwrite(imwrite(outputs, out_image_path, SwapChannels(image_rgb)),
                                     out_mask_path, Times255(label))
               /\ file_idx' = file_idx + 1
               /\ ppc' = "loop"
          ELSE /\ ppc' = "assertion_failed"
               /\ UNCHANGED <<outputs, file_idx>>
    /\ UNCHANGED <<tilerVars, runVars, poolVars, annotVars, evalVars, xmls, tifs, subset,
                   annotation_files, image_files, image_rgb>>

\* for subset in ['test', 'train']: the next subset's listings
ProcNextSubset ==
    /\ ppc = "loop" /\ file_idx > Len(annotation_files)
    /\ subset < Len(Subsets)
    /\ subset' = subset + 1
    /\ annotation_files' = SortedGlob(AnnotationFolder(subset + 1), xmls[subset + 1], "xml")
    /\ image_files' = SortedGlob(ImageFolder(subset + 1), tifs[subset + 1], "tif")
    /\ file_idx' = 1
    /\ UNCHANGED <<tilerVars, runVars, poolVars, annotVars, evalVars, xmls, tifs, ppc,
                   image_rgb, outputs>>

\* return
ProcReturn ==
    /\ ppc = "loop" /\ file_idx > Len(annotation_files)
    /\ subset = Len(Subsets)
    /\ ppc' = "done"
    /\ UNCHANGED <<tilerVars, runVars, poolVars, annotVars, evalVars, xmls, tifs, subset,
                   annotation_files, image_files, file_idx, image_rgb, outputs>>

NextProcess ==
    \/ ProcSkip
    \/ ProcRead
    \/ ParseRejectArea
    \/ ParseRejectVertices
    \/ ParseKeep
    \/ ParseReturn
    \/ LabelStart
    \/ LabelCell
    \/ LabelCellRaises
    \/ LabelReturn
    \/ ProcCheckAndWrite
    \/ ProcNextSubset
    \/ ProcReturn

SpecProcess == InitProcess /\ [][NextProcess]_vars

(***************************************************************************)
(* Claims about process_MoNuSeg_data.                                      *)
(***************************************************************************)
OutImagePathOf(s, image_id) == File(OutImageFolder(s), image_id, "png")

OutMaskPathOf(s, image_id) == File(OutMaskFolder(s), image_id, "png")

ImageMissing ==
    /\ ppc = "loop" /\ file_idx \in DOMAIN annotation_files
    /\ annotation_files[file_idx].stem \notin tifs[subset]

C11_NothingWritten ==
    ppc # "idle" =>
        \A s \in DOMAIN Subsets : \A image_id \in 1..MaxFiles :
            image_id \notin tifs[s] =>
                /\ OutImagePathOf(s, image_id) \notin DOMAIN outputs
                /\ OutMaskPathOf(s, image_id) \notin DOMAIN outputs

C11_SkipStep ==
    ImageMissing =>
        /\ annotVars' = annotVars
        /\ outputs' = outputs
        /\ image_rgb' = image_rgb
        /\ ppc' = "loop" /\ subset' = subset /\ file_idx' = file_idx + 1

\* C11: an annotation file whose image <image_id>.tif is not on disk is
\* skipped: no image file and no mask file is ever written for that
\* image_id, and the step taken at that annotation file leaves the parser's
\* state and the written files as they are and moves to the next file.
C11_MissingImageSkipped == [](C11_NothingWritten) /\ [][C11_SkipStep]_vars

C11_Witness ==
    /\ ppc = "loop" /\ subset = 1 /\ file_idx = 3
    /\ xmls[1] = {1, 2} /\ tifs[1] = {2}
    /\ OutImagePathOf(1, 1) \notin DOMAIN outputs
    /\ OutMaskPathOf(1, 1) \notin DOMAIN outputs
    /\ OutImagePathOf(1, 2) \in DOMAIN outputs
    /\ OutMaskPathOf(1, 2) \in DOMAIN outputs

MaskReturned == ppc = "annot" /\ apc = "returned"

MaskOutsideZeroOne == \E r \in DOMAIN label : \E c \in DOMAIN label[r] : label[r][c] \notin {0, 1}

C12_AssertThenWrite ==
    MaskReturned =>
        LET image_id == annotation_files[file_idx].stem
            written == outputs'[OutMaskPathOf(subset, image_id)].data
        IN IF MaskOutsideZeroOne
           THEN ppc' = "assertion_failed" /\ outputs' = outputs
           ELSE /\ OutImagePathOf(subset, image_id) \in DOMAIN outputs'
                /\ OutMaskPathOf(subset, image_id) \in DOMAIN outputs'
                /\ IsShape(written, CanvasH, CanvasW)
                /\ \A r \in 1..CanvasH : \A c \in 1..CanvasW :
                     written[r][c] = IF label[r][c] = 1 THEN 255 ELSE 0

C12_NothingAfterFailure ==
    ppc = "assertion_failed" =>
        /\ OutImagePathOf(subset, annotation_files[file_idx].stem) \notin DOMAIN outputs
        /\ OutMaskPathOf(subset, annotation_files[file_idx].stem) \notin DOMAIN outputs

C13_TreeOffsets(k, split, kind) ==
    { o \in Offsets : IntraPathOf(k, split, kind, o[1], o[2]) \in DOMAIN fs }

C13_Tile(k, kind, t) ==
    LET target == CeilPct(IntraJobs[k].percentage, GridTotal)
        evidence == IntraPathOf(k, "train", kind, TileH(t), TileW(t))
        heldout == IntraPathOf(k, "test", kind, TileH(t), TileW(t))
    IN /\ heldout \in DOMAIN fs /\ fs[heldout].writes = 1
       /\ IF t < target
          THEN evidence \in DOMAIN fs /\ fs[evidence].writes = 1
          ELSE /\ evidence \notin DOMAIN fs
               /\ fs[heldout].data = SourceTile(kind, IntraJobs[k].test_item, TileH(t), TileW(t))

C13_Effective(k, kind) ==
    LET path == IntraEffectiveOf(k, kind)
    IN /\ path \in DOMAIN fs =>
            /\ fs[path].writes = 1
            /\ IntraEmitted(k) = GridTotal
            /\ \A t \in 0..(GridTotal - 1) :
                 \A tiles \in {"images", "masks"} :
                    IntraPathOf(k, "test", tiles, TileH(t), TileW(t)) \in DOMAIN fs
       /\ IntraFinished(k) => path \in DOMAIN fs

\* C13: in the pass over one (image, percentage), every path written so far
\* has been written once; a tile already emitted has one image and one mask
\* file in the held-out tree, has files in the evidence tree only if it is an
\* evidence tile, and a held-out tile holds its real content in the held-out
\* tree; when the pass is over the held-out tree has T files of each kind and
\* the evidence tree ceil(p*T/100); the effective pair is written once, and
\* only when every tile of the image is written.
C13_WrittenOnce ==
    \A k \in IntraJobsToRead :
       /\ \A kind \in {"images", "masks"} :
            /\ \A t \in 0..(IntraEmitted(k) - 1) : C13_Tile(k, kind, t)
            /\ Cardinality(C13_TreeOffsets(k, "test", kind)) = IntraEmitted(k)
            /\ IntraFinished(k) =>
                 /\ Cardinality(C13_TreeOffsets(k, "test", kind)) = GridTotal
                 /\ Cardinality(C13_TreeOffsets(k, "train", kind))
                      = CeilPct(IntraJobs[k].percentage, GridTotal)
       /\ C13_Effective(k, "effective_image")
       /\ C13_Effective(k, "effective_mask")

C13_Witness ==
    /\ fn = "intraimage" /\ job = 2 /\ pc = "read"
    /\ GridTotal >= 6 /\ GridCols >= 2
    /\ IntraJobs[1].percentage = 5
    /\ fs[IntraEffectiveOf(1, "effective_image")].writes = 1
    /\ fs[IntraEffectiveOf(1, "effective_mask")].writes = 1
    /\ IntraPathOf(1, "train", "images", 0, 0) \in DOMAIN fs
    /\ IntraPathOf(1, "train", "images", TileH(1), TileW(1)) \notin DOMAIN fs
    /\ fs[IntraPathOf(1, "test", "images", TileH(1), TileW(1))].writes = 1
    /\ ~AllZero(fs[IntraPathOf(1, "test", "images", TileH(1), TileW(1))].data)

(***************************************************************************)
(* detection_eval.  A detection is [h, w], two floats, kept in halves of a *)
(* pixel as the vertices are: 3 is 1.5 and -1 is -0.5.  The mask is the    *)
(* grayscale mask file of the image, EvalH rows by EvalW columns.          *)
(***************************************************************************)
RowChoices == {-1, 0, 1, 2 * EvalH - 1, 2 * EvalH}

ColChoices == {-1, 1, 2 * EvalW}

MaskChoices ==
    { [ r \in 1..EvalH |-> [ c \in 1..EvalW |-> 255 ] ],
      [ r \in 1..EvalH |-> [ c \in 1..EvalW |-> IF (r + c) % 2 = 0 THEN 255 ELSE 0 ] ] }

TotalPosChoices == {0, 3}

\* mask = (mask > 0) * 1.0
Binarize(arr) == [ r \in DOMAIN arr |-> [ c \in DOMAIN arr[r] |-> IF arr[r][c] > 0 THEN 1 ELSE 0 ] ]

\* int() of a float: the fraction is cut off, towards zero.
IntOf(halves) == IF halves >= 0 THEN halves \div 2 ELSE -((-halves) \div 2)

\* A bounds test that lets a coordinate equal to the height or width pass.
OutOfBoundsStrict(n, shape0, shape1) ==
    n[1] < 0 \/ n[1] > 2 * shape0 \/ n[2] < 0 \/ n[2] > 2 * shape1

\* n[0] < 0 or n[0] >= mask.shape[0] or n[1] < 0 or n[1] >= mask.shape[1]
OutOfBounds(n, shape0, shape1) ==
    n[1] < 0 \/ n[1] >= 2 * shape0 \/ n[2] < 0 \/ n[2] >= 2 * shape1

\* An index numpy accepts for an axis of the given length, and the place it
\* reaches: a negative index counts from the end.
IndexAccepted(i, length) == -length <= i /\ i < length

IndexReached(i, length) == IF i < 0 THEN i + length ELSE i

\* np.sum(nuclei_mask * mask)
RECURSIVE SumSeq(_)
SumSeq(row) == IF row = <<>> THEN 0 ELSE Head(row) + SumSeq(Tail(row))
SumOfProduct(a, b) ==
    SumSeq([ r \in DOMAIN a |-> SumSeq([ c \in DOMAIN a[r] |-> a[r][c] * b[r][c] ]) ])

\* TP / (TP + FN) in numpy floats: a fraction, nan for 0 / 0, inf for x / 0.
Divide(num, den) ==
    IF den # 0 THEN << num, den >> ELSE IF num = 0 THEN "nan" ELSE "inf"

InitEval ==
    /\ TilerIdle /\ RunIdle /\ PoolIdle /\ AnnotIdle /\ ProcIdle
    /\ \E len \in 0..MaxDetections : nuclei_list \in [ 1..len -> RowChoices \X ColChoices ]
    /\ gt_mask \in MaskChoices
    /\ total_pos \in TotalPosChoices
    /\ n_idx = 1
    /\ nuclei_mask = zeros_like(Binarize(gt_mask))
    /\ epc = "loop"
    /\ TP = 0 /\ FN = 0 /\ recall = <<>>

\* One iteration of for n in nuclei_list.
EvalDetection ==
    /\ epc = "loop" /\ n_idx <= Len(nuclei_list)
    /\ LET n == nuclei_list[n_idx]
           shape0 == Height(gt_mask)
           shape1 == Width(gt_mask)
           i == IntOf(n[1])
           j == IntOf(n[2])
       IN IF OutOfBounds(n, shape0, shape1)
          THEN /\ n_idx' = n_idx + 1
               /\ UNCHANGED <<nuclei_mask, epc>>
          ELSE IF IndexAccepted(i, shape0) /\ IndexAccepted(j, shape1)
          THEN /\ nuclei_mask' = [ nuclei_mask EXCEPT
                                     ![IndexReached(i, shape0) + 1][IndexReached(j, shape1) + 1] = 1 ]
               /\ n_idx' = n_idx + 1
               /\ UNCHANGED epc
          ELSE /\ epc' = "index_error"
               /\ UNCHANGED <<nuclei_mask, n_idx>>
    /\ UNCHANGED <<tilerVars, runVars, poolVars, annotVars, procVars, nuclei_list, gt_mask,
                   total_pos, TP, FN, recall>>

\* TP, FN, recall are computed and returned.
EvalReturn ==
    /\ epc = "loop" /\ n_idx > Len(nuclei_list)
    /\ LET tp == SumOfProduct(nuclei_mask, Binarize(gt_mask))
           fn_ == total_pos - tp
       IN /\ TP' = tp
          /\ FN' = fn_
          /\ recall' = Divide(tp, tp + fn_)
    /\ epc' = "returned"
    /\ UNCHANGED <<tilerVars, runVars, poolVars, annotVars, procVars, nuclei_list, gt_mask,
                   total_pos, n_idx, nuclei_mask>>

NextEval ==
    \/ EvalDetection
    \/ EvalReturn

SpecEval == InitEval /\ [][NextEval]_vars

InBounds(n) == 0 <= n[1] /\ n[1] < 2 * EvalH /\ 0 <= n[2] /\ n[2] < 2 * EvalW

\* The pixel a detection falls on, as (row, column) counted from 0.
PixelOf(n) == << n[1] \div 2, n[2] \div 2 >>

DetectedPixels(upto) == { PixelOf(nuclei_list[k]) : k \in { m \in 1..upto : InBounds(nuclei_list[m]) } }

\* C14: detection_eval never indexes outside the mask: no index is refused,
\* and a pixel of nuclei_mask is set exactly when a detection within the
\* bounds falls on it, so that a detection out of bounds contributes
\* nothing; TP is the number of distinct pixels with a detection within
\* bounds and a positive mask, FN = total_pos - TP and TP + FN = total_pos.
C14_DetectionEval ==
    epc # "idle" =>
        /\ epc # "index_error"
        /\ IsShape(nuclei_mask, EvalH, EvalW)
        /\ \A r \in 1..EvalH : \A c \in 1..EvalW :
             nuclei_mask[r][c] = IF << r - 1, c - 1 >> \in DetectedPixels(n_idx - 1) THEN 1 ELSE 0
        /\ epc = "returned" =>
             /\ n_idx - 1 = Len(nuclei_list)
             /\ TP = Cardinality({ p \in DetectedPixels(Len(nuclei_list)) :
                                     gt_mask[p[1] + 1][p[2] + 1] > 0 })
             /\ FN = total_pos - TP
             /\ TP + FN = total_pos

C14_Witness ==
    /\ epc = "returned"
    /\ Len(nuclei_list) = 2
    /\ nuclei_list[1] = << 2 * EvalH, 1 >>
    /\ nuclei_list[2] = << 1, 1 >>
    /\ gt_mask[1][1] > 0
    /\ TP = 1 /\ total_pos = 3 /\ FN = 2

====
